---- MODULE Spec2Model ----
(***************************************************************************)
(* Sandbox security validation (validate-sandbox-security.ts): the bind    *)
(* mount, network mode, seccomp and AppArmor checks that gate the creation *)
(* of a sandbox container.  Strings are TLA+ strings; characters are       *)
(* strings of length one, read with SubSeq.                                *)
(***************************************************************************)
EXTENDS Integers, Sequences, FiniteSets, TLC

VARIABLES
  cfg,        \* the configuration passed to the validator
  fs,         \* the host filesystem
  pc,         \* the validator's position
  idx,        \* index of the bind entry under examination
  outcome,    \* how the current call ended, once it has
  log,        \* the checks the current call has made, in order
  run,        \* number of the current call on cfg
  first,      \* outcome of the first call on cfg
  fsChanged,  \* whether the filesystem changed since the first call began
  arg,        \* input of a function applied on its own
  res         \* the results of applying it

vars == <<cfg, fs, pc, idx, outcome, log, run, first, fsChanged, arg, res>>

-----------------------------------------------------------------------------
(* Bounds of the model.                                                    *)

\* Longest list of bind mounts in a configuration.
MaxBinds == 2

\* Number of times the caller validates one configuration.
MaxRuns == 2

\* Longest suffix appended to a base path to make a bind source.
MaxSuffixLen == 2

\* Longest raw path given to normalizeHostPath on its own.
MaxRawLen == 4

\* Longest run of white space around a scalar value.
MaxPad == 1

\* Number of leading letters of a blocked scalar value whose case varies.
MaxCased == 4

-----------------------------------------------------------------------------
(* JavaScript string primitives used by the validators.                    *)

CharAt(s, i) == SubSeq(s, i, i)

StartsWith(s, p) == Len(p) <= Len(s) /\ SubSeq(s, 1, Len(p)) = p

\* The white space String.prototype.trim removes (the part of it the inputs use).
WhiteSpace == {" ", "\t"}

RECURSIVE TrimStart(_)
TrimStart(s) ==
  IF Len(s) > 0 /\ CharAt(s, 1) \in WhiteSpace
    THEN TrimStart(SubSeq(s, 2, Len(s)))
    ELSE s

RECURSIVE TrimEnd(_)
TrimEnd(s) ==
  IF Len(s) > 0 /\ CharAt(s, Len(s)) \in WhiteSpace
    THEN TrimEnd(SubSeq(s, 1, Len(s) - 1))
    ELSE s

\* String.prototype.trim
Trim(s) == TrimEnd(TrimStart(s))

\* String.prototype.indexOf for a one-character needle, 0-based, -1 when absent.
RECURSIVE IndexFrom(_, _, _)
IndexFrom(s, c, k) ==
  IF k > Len(s) THEN -1
  ELSE IF CharAt(s, k) = c THEN k - 1
  ELSE IndexFrom(s, c, k + 1)

IndexOf(s, c) == IndexFrom(s, c, 1)

UpperLetters == "ABCDEFGHIJKLMNOPQRSTUVWXYZ"

LowerLetters == "abcdefghijklmnopqrstuvwxyz"

LowerChar(c) ==
  LET k == IndexOf(UpperLetters, c)
  IN  IF k >= 0 THEN CharAt(LowerLetters, k + 1) ELSE c

\* String.prototype.toLowerCase
RECURSIVE ToLowerCase(_)
ToLowerCase(s) ==
  IF s = "" THEN ""
  ELSE LowerChar(CharAt(s, 1)) \o ToLowerCase(SubSeq(s, 2, Len(s)))

\* The segments of s between "/" separators (String.prototype.split("/")).
RECURSIVE SplitSlash(_)
SplitSlash(s) ==
  LET k == IndexOf(s, "/")
  IN  IF k < 0 THEN << s >>
      ELSE <<SubSeq(s, 1, k)>> \o SplitSlash(SubSeq(s, k + 2, Len(s)))

RECURSIVE JoinSlash(_)
JoinSlash(segs) ==
  IF Len(segs) = 0 THEN ""
  ELSE IF Len(segs) = 1 THEN segs[1]
  ELSE segs[1] \o "/" \o JoinSlash(Tail(segs))

-----------------------------------------------------------------------------
(* node:path posix.normalize, as normalizeHostPath calls it.               *)

\* normalizeString: drop empty and "." segments; ".." removes the segment
\* before it, or is kept when there is none and the path is relative.
RECURSIVE NormalizeSegments(_, _, _)
NormalizeSegments(segs, acc, allowAboveRoot) ==
  IF Len(segs) = 0 THEN acc
  ELSE
    LET seg  == Head(segs)
        rest == Tail(segs)
    IN  IF seg = "" \/ seg = "." THEN NormalizeSegments(rest, acc, allowAboveRoot)
        ELSE IF seg = ".." THEN
          IF Len(acc) > 0 /\ acc[Len(acc)] # ".."
            THEN NormalizeSegments(rest, SubSeq(acc, 1, Len(acc) - 1), allowAboveRoot)
          ELSE IF allowAboveRoot
            THEN NormalizeSegments(rest, Append(acc, ".."), allowAboveRoot)
          ELSE NormalizeSegments(rest, acc, allowAboveRoot)
        ELSE NormalizeSegments(rest, Append(acc, seg), allowAboveRoot)

PosixNormalize(path) ==
  IF path = "" THEN "."
  ELSE
    LET isAbsolute        == CharAt(path, 1) = "/"
        trailingSeparator == CharAt(path, Len(path)) = "/"
        body == JoinSlash(NormalizeSegments(SplitSlash(path), <<>>, ~isAbsolute))
    IN  IF body = ""
          THEN IF isAbsolute THEN "/"
               ELSE IF trailingSeparator THEN "./" ELSE "."
          ELSE (IF isAbsolute THEN "/" ELSE "") \o body
               \o (IF trailingSeparator THEN "/" ELSE "")

\* replace(/\/+$/, "")
RECURSIVE StripTrailingSlashes(_)
StripTrailingSlashes(s) ==
  IF Len(s) > 0 /\ CharAt(s, Len(s)) = "/"
    THEN StripTrailingSlashes(SubSeq(s, 1, Len(s) - 1))
    ELSE s

normalizeHostPath(raw) ==
  LET trimmed  == Trim(raw)
      stripped == StripTrailingSlashes(PosixNormalize(trimmed))
  IN  IF stripped = "" THEN "/" ELSE stripped

-----------------------------------------------------------------------------
(* The denylists.                                                          *)

BLOCKED_HOST_PATHS ==
  << "/etc", "/private/etc", "/proc", "/sys", "/dev", "/root", "/boot",
     "/var/run/docker.sock", "/private/var/run/docker.sock", "/run/docker.sock" >>

BLOCKED_NETWORK_MODES == {"host"}

BLOCKED_SECCOMP_PROFILES == {"unconfined"}

BLOCKED_APPARMOR_PROFILES == {"unconfined"}

\* BlockedBindReason | null: kind "none" stands for null; path carries
\* blockedPath (targets, covers) or sourcePath (non_absolute).
NoReason == [kind |-> "none", path |-> ""]

Reason(k, p) == [kind |-> k, path |-> p]

-----------------------------------------------------------------------------
(* Bind mount parsing and the string-only check.                           *)

parseBindSourcePath(bind) ==
  LET trimmed    == Trim(bind)
      firstColon == IndexOf(trimmed, ":")
  IN  IF firstColon <= 0 THEN trimmed ELSE SubSeq(trimmed, 1, firstColon)

\* The loop without the test for paths under a blocked path.
RECURSIVE StringOnlyScan_ExactOnly(_, _)
StringOnlyScan_ExactOnly(normalized, k) ==
  IF k > Len(BLOCKED_HOST_PATHS) THEN NoReason
  ELSE
    LET blocked == BLOCKED_HOST_PATHS[k]
    IN  IF normalized = blocked
          THEN Reason("targets", blocked)
        ELSE IF normalized = "/"
          THEN Reason("covers", blocked)
        ELSE IF StartsWith(blocked, normalized \o "/")
          THEN Reason("covers", blocked)
        ELSE StringOnlyScan_ExactOnly(normalized, k + 1)

\* The loop without the test for the root.
RECURSIVE StringOnlyScan_NoRoot(_, _)
StringOnlyScan_NoRoot(normalized, k) ==
  IF k > Len(BLOCKED_HOST_PATHS) THEN NoReason
  ELSE
    LET blocked == BLOCKED_HOST_PATHS[k]
    IN  IF normalized = blocked \/ StartsWith(normalized, blocked \o "/")
          THEN Reason("targets", blocked)
        ELSE IF StartsWith(blocked, normalized \o "/")
          THEN Reason("covers", blocked)
        ELSE StringOnlyScan_NoRoot(normalized, k + 1)

\* The loop with a prefix test on the text, not on whole segments.
RECURSIVE StringOnlyScan_TextPrefix(_, _)
StringOnlyScan_TextPrefix(normalized, k) ==
  IF k > Len(BLOCKED_HOST_PATHS) THEN NoReason
  ELSE
    LET blocked == BLOCKED_HOST_PATHS[k]
    IN  IF StartsWith(normalized, blocked)
          THEN Reason("targets", blocked)
        ELSE IF normalized = "/"
          THEN Reason("covers", blocked)
        ELSE IF StartsWith(blocked, normalized \o "/")
          THEN Reason("covers", blocked)
        ELSE StringOnlyScan_TextPrefix(normalized, k + 1)

\* The loop of getBlockedBindReasonStringOnly over BLOCKED_HOST_PATHS, from
\* entry k on: the first entry that matches decides.
RECURSIVE StringOnlyScan(_, _)
StringOnlyScan(normalized, k) ==
  IF k > Len(BLOCKED_HOST_PATHS) THEN NoReason
  ELSE
    LET blocked == BLOCKED_HOST_PATHS[k]
    IN  IF normalized = blocked \/ StartsWith(normalized, blocked \o "/")
          THEN Reason("targets", blocked)
        ELSE IF normalized = "/"
          THEN Reason("covers", blocked)
        ELSE IF StartsWith(blocked, normalized \o "/")
          THEN Reason("covers", blocked)
        ELSE StringOnlyScan(normalized, k + 1)

\* The check without the rejection of non-absolute sources.
getBlockedBindReasonStringOnly_NoAbsoluteCheck(bind) ==
  StringOnlyScan(normalizeHostPath(parseBindSourcePath(bind)), 1)

getBlockedBindReasonStringOnly(bind) ==
  LET sourceRaw == parseBindSourcePath(bind)
  IN  IF ~StartsWith(sourceRaw, "/")
        THEN Reason("non_absolute", sourceRaw)
        ELSE StringOnlyScan(normalizeHostPath(sourceRaw), 1)

\* The message of the Error formatBindBlockedError builds.
formatBindBlockedError(bind, reason) ==
  IF reason.kind = "non_absolute"
    THEN "Sandbox security: bind mount \"" \o bind
         \o "\" uses a non-absolute source path \"" \o reason.path
         \o "\". Only absolute POSIX paths are supported for sandbox binds."
    ELSE "Sandbox security: bind mount \"" \o bind \o "\" "
         \o (IF reason.kind = "covers" THEN "covers" ELSE "targets")
         \o " blocked path \"" \o reason.path \o "\". "
         \o "Mounting system directories (or Docker socket paths) into sandbox containers is not allowed. "
         \o "Use project-specific paths instead (e.g. /home/user/myproject)."

-----------------------------------------------------------------------------
(* The host filesystem, as existsSync and realpathSync.native see it.  The *)
(* directories and files below always exist; /etc/lt is a symlink out of   *)
(* /etc; /home/u/l is a symlink another process may create, retarget or    *)
(* remove at any time; realpathFails stands for the resolution errors      *)
(* (EACCES, a platform quirk) that leave existsSync true.                  *)

RealNodes == {"/", "/etc", "/etc/a", "/home", "/home/u", "/srv", "/srv/a"}

LinkTargets == {"", "/etc"}

FsStates == [link : LinkTargets, realpathFails : BOOLEAN]

\* The target of the symlink at path p, "" when p is no symlink.
Symlink(f, p) ==
  IF p = "/home/u/l" THEN f.link
  ELSE IF p = "/etc/lt" THEN "/srv"
  ELSE ""

NonEmptySegments(p) == SelectSeq(SplitSlash(p), LAMBDA seg : seg # "")

\* Walk the segments from the real directory cur ("" for the root),
\* following symlinks; ok is FALSE when a component does not exist (ENOENT).
RECURSIVE Resolve(_, _, _)
Resolve(f, segs, cur) ==
  IF Len(segs) = 0 THEN [ok |-> TRUE, path |-> IF cur = "" THEN "/" ELSE cur]
  ELSE
    LET cand == cur \o "/" \o Head(segs)
    IN  IF Symlink(f, cand) # ""
          THEN Resolve(f, NonEmptySegments(Symlink(f, cand)) \o Tail(segs), "")
        ELSE IF cand \in RealNodes
          THEN Resolve(f, Tail(segs), cand)
        ELSE [ok |-> FALSE, path |-> ""]

existsSync(f, path) == Resolve(f, NonEmptySegments(path), "").ok

\* realpathSync.native: ok is FALSE when it throws.
realpathSync(f, path) ==
  IF f.realpathFails THEN [ok |-> FALSE, path |-> ""]
  ELSE Resolve(f, NonEmptySegments(path), "")

\* tryRealpathAbsolute without its catch clause.
tryRealpath_NoCatch(f, path) ==
  LET r == realpathSync(f, path)
  IN  IF r.ok THEN [threw |-> FALSE, path |-> normalizeHostPath(r.path)]
      ELSE [threw |-> TRUE, path |-> path]

\* The try/catch of tryRealpathAbsolute: threw is TRUE when an error leaves
\* the function, which the catch clause never lets happen.
tryRealpathCatch(f, path) ==
  LET r == realpathSync(f, path)
  IN  IF r.ok THEN [threw |-> FALSE, path |-> normalizeHostPath(r.path)]
      ELSE [threw |-> FALSE, path |-> path]

\* The second loop without the test for paths under a blocked path.
RECURSIVE RealpathScan_ExactOnly(_, _)
RealpathScan_ExactOnly(sourceReal, k) ==
  IF k > Len(BLOCKED_HOST_PATHS) THEN NoReason
  ELSE
    LET blockedPath == BLOCKED_HOST_PATHS[k]
    IN  IF sourceReal = blockedPath
          THEN Reason("targets", blockedPath)
        ELSE IF sourceReal = "/"
          THEN Reason("covers", blockedPath)
        ELSE IF StartsWith(blockedPath, sourceReal \o "/")
          THEN Reason("covers", blockedPath)
        ELSE RealpathScan_ExactOnly(sourceReal, k + 1)

\* The second loop of validateBindMounts, over the resolved path.
RECURSIVE RealpathScan(_, _)
RealpathScan(sourceReal, k) ==
  IF k > Len(BLOCKED_HOST_PATHS) THEN NoReason
  ELSE
    LET blockedPath == BLOCKED_HOST_PATHS[k]
    IN  IF sourceReal = blockedPath \/ StartsWith(sourceReal, blockedPath \o "/")
          THEN Reason("targets", blockedPath)
        ELSE IF sourceReal = "/"
          THEN Reason("covers", blockedPath)
        ELSE IF StartsWith(blockedPath, sourceReal \o "/")
          THEN Reason("covers", blockedPath)
        ELSE RealpathScan(sourceReal, k + 1)

-----------------------------------------------------------------------------
(* The scalar validators.  An optional string is a sequence of length 0    *)
(* (undefined) or 1.                                                       *)

Absent == <<>>

Present(v) == << v >>

\* JavaScript truthiness of an optional string: defined and not empty.
Truthy(opt) == Len(opt) = 1 /\ opt[1] # ""

NoError == [threw |-> FALSE, message |-> ""]

Thrown(m) == [threw |-> TRUE, message |-> m]

validateNetworkMode(network) ==
  IF Truthy(network) /\ ToLowerCase(Trim(network[1])) \in BLOCKED_NETWORK_MODES
    THEN Thrown("Sandbox security: network mode \"" \o network[1] \o "\" is blocked. "
                \o "Network \"host\" mode bypasses container network isolation. "
                \o "Use \"bridge\" or \"none\" instead.")
    ELSE NoError

\* The validator quoting the value it compared, not the value it was given.
validateSeccompProfile_LowerCasedMessage(profile) ==
  IF Truthy(profile) /\ ToLowerCase(Trim(profile[1])) \in BLOCKED_SECCOMP_PROFILES
    THEN Thrown("Sandbox security: seccomp profile \"" \o ToLowerCase(Trim(profile[1]))
                \o "\" is blocked. "
                \o "Disabling seccomp removes syscall filtering and weakens sandbox isolation. "
                \o "Use a custom seccomp profile file or omit this setting.")
    ELSE NoError

validateSeccompProfile(profile) ==
  IF Truthy(profile) /\ ToLowerCase(Trim(profile[1])) \in BLOCKED_SECCOMP_PROFILES
    THEN Thrown("Sandbox security: seccomp profile \"" \o profile[1] \o "\" is blocked. "
                \o "Disabling seccomp removes syscall filtering and weakens sandbox isolation. "
                \o "Use a custom seccomp profile file or omit this setting.")
    ELSE NoError

validateApparmorProfile(profile) ==
  IF Truthy(profile) /\ ToLowerCase(Trim(profile[1])) \in BLOCKED_APPARMOR_PROFILES
    THEN Thrown("Sandbox security: apparmor profile \"" \o profile[1] \o "\" is blocked. "
                \o "Disabling AppArmor removes mandatory access controls and weakens sandbox isolation. "
                \o "Use a named AppArmor profile or omit this setting.")
    ELSE NoError

-----------------------------------------------------------------------------
(* validateSandboxSecurity as a state machine: one step per check of a     *)
(* bind entry that reads nothing or reads the filesystem once, one step    *)
(* per scalar validator.                                                   *)

Running == [status |-> "running", kind |-> "none", message |-> ""]

Returned == [status |-> "returned", kind |-> "none", message |-> ""]

Threw(k, m) == [status |-> "threw", kind |-> k, message |-> m]

LogEntry(check, entry, pass, reason, found, real) ==
  [check |-> check, entry |-> entry, pass |-> pass, reason |-> reason,
   found |-> found, real |-> real,
   link |-> IF check \in {"exists", "realpath"} THEN fs.link ELSE ""]

\* validateBindMounts returning after its first entry.
AfterEntry_ReturnsEarly(k) == "network"

\* Where validateBindMounts goes after entry k passed or was skipped.
AfterEntry(k) == IF k + 1 > Len(cfg.binds) THEN "network" ELSE "bind"

\* validateBindMounts, top of the loop body: skip a blank entry, else run
\* the string-only check and throw on a reason.
BindStringCheck ==
  /\ pc = "bind"
  /\ idx <= Len(cfg.binds)
  /\ LET bind == Trim(cfg.binds[idx])
     IN  IF bind = ""
           THEN /\ pc' = AfterEntry(idx)
                /\ idx' = idx + 1
                /\ UNCHANGED <<outcome, log>>
         ELSE
           LET blocked == getBlockedBindReasonStringOnly(bind)
           IN  /\ log' = Append(log, LogEntry("string", idx, blocked.kind = "none",
                                              blocked, FALSE, ""))
               /\ IF blocked.kind # "none"
                    THEN /\ outcome' = Threw("sandbox_security",
                                             formatBindBlockedError(bind, blocked))
                         /\ pc' = "done"
                         /\ idx' = idx
                    ELSE /\ pc' = "exists"
                         /\ UNCHANGED <<outcome, idx>>
  /\ UNCHANGED <<cfg, fs, run, first, fsChanged, arg, res>>

\* tryRealpathAbsolute up to existsSync: a path that does not exist is its
\* own real path, and the entry passes.
BindExists ==
  /\ pc = "exists"
  /\ LET sourceNormalized == normalizeHostPath(parseBindSourcePath(Trim(cfg.binds[idx])))
         found == StartsWith(sourceNormalized, "/") /\ existsSync(fs, sourceNormalized)
     IN  /\ log' = Append(log, LogEntry("exists", idx, TRUE, NoReason, found, ""))
         /\ IF found
              THEN /\ pc' = "realpath"
                   /\ idx' = idx
              ELSE /\ pc' = AfterEntry(idx)
                   /\ idx' = idx + 1
  /\ UNCHANGED <<cfg, fs, outcome, run, first, fsChanged, arg, res>>

\* tryRealpathAbsolute from realpathSync.native on, then the re-check of
\* validateBindMounts on a real path that differs from the normalized one.
BindRealpath ==
  /\ pc = "realpath"
  /\ LET bind == Trim(cfg.binds[idx])
         sourceNormalized == normalizeHostPath(parseBindSourcePath(bind))
         r == tryRealpathCatch(fs, sourceNormalized)
         sourceReal == r.path
         blocked == IF sourceReal # sourceNormalized
                      THEN RealpathScan(sourceReal, 1)
                      ELSE NoReason
     IN  IF r.threw
           THEN /\ log' = Append(log, LogEntry("realpath", idx, FALSE, NoReason, FALSE, ""))
                /\ outcome' = Threw("fs_error", "realpath " \o sourceNormalized)
                /\ pc' = "done"
                /\ idx' = idx
         ELSE
           /\ log' = Append(log, LogEntry("realpath", idx, blocked.kind = "none", blocked,
                                          realpathSync(fs, sourceNormalized).ok, sourceReal))
           /\ IF blocked.kind # "none"
                THEN /\ outcome' = Threw("sandbox_security",
                                         formatBindBlockedError(bind, blocked))
                     /\ pc' = "done"
                     /\ idx' = idx
                ELSE /\ pc' = AfterEntry(idx)
                     /\ idx' = idx + 1
                     /\ UNCHANGED outcome
  /\ UNCHANGED <<cfg, fs, run, first, fsChanged, arg, res>>

\* One scalar validator of validateSandboxSecurity: throw, or go on to next.
ScalarStep(here, answer, next) ==
  /\ pc = here
  /\ log' = Append(log, LogEntry(here, 0, ~answer.threw, NoReason, FALSE, ""))
  /\ IF answer.threw
       THEN /\ outcome' = Threw("sandbox_security", answer.message)
            /\ pc' = "done"
       ELSE /\ pc' = next
            /\ outcome' = IF next = "done" THEN Returned ELSE outcome
  /\ UNCHANGED <<cfg, fs, idx, run, first, fsChanged, arg, res>>

NetworkCheck == ScalarStep("network", validateNetworkMode(cfg.network), "seccomp")

SeccompCheck == ScalarStep("seccomp", validateSeccompProfile(cfg.seccompProfile), "apparmor")

ApparmorCheck == ScalarStep("apparmor", validateApparmorProfile(cfg.apparmorProfile), "done")

\* Where a call of validateSandboxSecurity begins: validateBindMounts
\* returns at once when binds is absent or empty.
Entry(c) == IF Len(c.binds) = 0 THEN "network" ELSE "bind"

\* A second call that takes the binds as validated by the first.
CallAgain_SkipsBinds ==
  /\ pc = "done"
  /\ run < MaxRuns
  /\ run' = run + 1
  /\ first' = IF run = 1 THEN outcome ELSE first
  /\ pc' = "network"
  /\ idx' = 1
  /\ outcome' = Running
  /\ log' = <<>>
  /\ UNCHANGED <<cfg, fs, fsChanged, arg, res>>

\* The caller validates the same configuration again.
CallAgain ==
  /\ pc = "done"
  /\ run < MaxRuns
  /\ run' = run + 1
  /\ first' = IF run = 1 THEN outcome ELSE first
  /\ pc' = Entry(cfg)
  /\ idx' = 1
  /\ outcome' = Running
  /\ log' = <<>>
  /\ UNCHANGED <<cfg, fs, fsChanged, arg, res>>

\* Another process changes the filesystem.  A change matters to the
\* validator only at its next read, so it is taken right before one.
FsChange ==
  /\ pc \in {"exists", "realpath"}
  /\ fs' \in FsStates \ {fs}
  /\ fsChanged' = TRUE
  /\ UNCHANGED <<cfg, pc, idx, outcome, log, run, first, arg, res>>

-----------------------------------------------------------------------------
(* Configurations.                                                         *)

MainBinds ==
  { "/home/u/l/a:/mnt/a:ro", "/home/u/l/b:/mnt/b", "/home/u/l/lt:/mnt/lt",
    "myvol:/mnt", "/var:/var", "  " }

RECURSIVE SeqsUpTo(_, _)
SeqsUpTo(S, n) ==
  IF n = 0 THEN {<<>>}
  ELSE LET shorter == SeqsUpTo(S, n - 1)
       IN  shorter \cup {Append(q, x) : q \in shorter, x \in S}

ScalarConfigs ==
  { [network |-> Absent,           seccompProfile |-> Absent,
     apparmorProfile |-> Absent],
    [network |-> Present("none"),  seccompProfile |-> Present("unconfined"),
     apparmorProfile |-> Present("Unconfined")],
    [network |-> Present("Host"),  seccompProfile |-> Present("Unconfined"),
     apparmorProfile |-> Absent] }

Config(binds, sc) ==
  [binds |-> binds, network |-> sc.network, seccompProfile |-> sc.seccompProfile,
   apparmorProfile |-> sc.apparmorProfile]

Configs == {Config(b, sc) : b \in SeqsUpTo(MainBinds, MaxBinds), sc \in ScalarConfigs}

Idle == arg = "" /\ res = <<>>

Start(c) ==
  /\ cfg = c
  /\ pc = Entry(c)
  /\ idx = 1
  /\ outcome = Running
  /\ log = <<>>
  /\ run = 1
  /\ first = Running
  /\ fsChanged = FALSE

Init ==
  /\ \E c \in Configs : Start(c)
  /\ fs \in FsStates
  /\ Idle

Next ==
  \/ BindStringCheck
  \/ BindExists
  \/ BindRealpath
  \/ NetworkCheck
  \/ SeccompCheck
  \/ ApparmorCheck
  \/ FsChange

Spec == Init /\ [][Next]_vars

-----------------------------------------------------------------------------
(* The same configuration validated more than once.                        *)

TwiceConfigs == {Config(b, sc) : b \in SeqsUpTo(MainBinds, 1), sc \in ScalarConfigs}

InitTwice ==
  /\ \E c \in TwiceConfigs : Start(c)
  /\ fs \in FsStates
  /\ Idle

NextTwice ==
  \/ BindStringCheck
  \/ BindExists
  \/ BindRealpath
  \/ NetworkCheck
  \/ SeccompCheck
  \/ ApparmorCheck
  \/ FsChange
  \/ CallAgain

SpecTwice == InitTwice /\ [][NextTwice]_vars

-----------------------------------------------------------------------------
(* validateBindMounts on a list of one bind, over a wide set of sources.   *)

\* All strings over the characters of alphabet, of length at most n.
RECURSIVE Strings(_, _)
Strings(alphabet, n) ==
  IF n = 0 THEN {""}
  ELSE LET shorter == Strings(alphabet, n - 1)
       IN  shorter \cup {t \o c : t \in shorter, c \in alphabet}

Range(q) == {q[k] : k \in 1..Len(q)}

\* "/" followed by the first k of segs, "/" for k = 0.
PathOf(segs, k) == IF k = 0 THEN "/" ELSE "/" \o JoinSlash(SubSeq(segs, 1, k))

\* Every strict ancestor directory of the absolute path p, the root included.
StrictAncestors(p) ==
  LET segs == NonEmptySegments(p)
  IN  {PathOf(segs, k) : k \in 0..(Len(segs) - 1)}

BlockedAncestors == UNION {StrictAncestors(p) : p \in Range(BLOCKED_HOST_PATHS)}

OtherBases ==
  { "/etcetera", "/Etc", "/home/u/l", "/srv", "/var/data/myapp", "/opt/myapp",
    "etc", "myvol", "..", "", " " }

SourceBases == Range(BLOCKED_HOST_PATHS) \cup BlockedAncestors \cup OtherBases

Suffixes == {""} \cup {"/" \o t : t \in Strings({"a", ".", "/", " "}, MaxSuffixLen)}

BindTargets == {"", ":/mnt:ro"}

BindInputs == {b \o t \o g : b \in SourceBases, t \in Suffixes, g \in BindTargets}

NoScalars == [network |-> Absent, seccompProfile |-> Absent, apparmorProfile |-> Absent]

InitBind ==
  /\ \E b \in BindInputs : Start(Config(<< b >>, NoScalars))
  /\ fs \in FsStates
  /\ Idle

\* validateBindMounts has returned when pc = "network", thrown when "done".
NextBind ==
  \/ BindStringCheck
  \/ BindExists
  \/ BindRealpath

SpecBind == InitBind /\ [][NextBind]_vars

-----------------------------------------------------------------------------
(* Functions applied on their own.                                         *)

\* The machine at rest while a function is applied on its own.
Parked ==
  /\ cfg = Config(<<>>, NoScalars)
  /\ fs = [link |-> "", realpathFails |-> FALSE]
  /\ pc = "idle"
  /\ idx = 1
  /\ outcome = Running
  /\ log = <<>>
  /\ run = 1
  /\ first = Running
  /\ fsChanged = FALSE

machine == <<cfg, fs, pc, idx, outcome, log, run, first, fsChanged>>

RawPaths == Strings({"/", ".", " ", "a"}, MaxRawLen)

InitNormalize ==
  /\ Parked
  /\ arg \in RawPaths
  /\ res = <<>>

\* normalizeHostPath(x)
NormalizeFirst ==
  /\ pc = "idle"
  /\ Len(res) = 0
  /\ res' = <<normalizeHostPath(arg)>>
  /\ UNCHANGED <<machine, arg>>

\* normalizeHostPath(normalizeHostPath(x))
NormalizeAgain ==
  /\ pc = "idle"
  /\ Len(res) = 1
  /\ res' = Append(res, normalizeHostPath(res[1]))
  /\ UNCHANGED <<machine, arg>>

NextNormalize == NormalizeFirst \/ NormalizeAgain

SpecNormalize == InitNormalize /\ [][NextNormalize]_vars

UpperChar(c) ==
  LET k == IndexOf(LowerLetters, c)
  IN  IF k >= 0 THEN CharAt(UpperLetters, k + 1) ELSE c

\* The spellings of w whose first n letters are in either case.
RECURSIVE Casings(_, _)
Casings(w, n) ==
  IF w = "" \/ n = 0 THEN {w}
  ELSE {c \o t : c \in {CharAt(w, 1), UpperChar(CharAt(w, 1))},
                 t \in Casings(SubSeq(w, 2, Len(w)), n - 1)}

RECURSIVE UpperCase(_)
UpperCase(w) == IF w = "" THEN "" ELSE UpperChar(CharAt(w, 1)) \o UpperCase(SubSeq(w, 2, Len(w)))

Pads == Strings(WhiteSpace, MaxPad)

BlockedWords == BLOCKED_NETWORK_MODES \cup BLOCKED_SECCOMP_PROFILES \cup BLOCKED_APPARMOR_PROFILES

ScalarWords ==
  UNION {Casings(w, MaxCased) \cup {UpperCase(w)} : w \in BlockedWords}
  \cup { "", "hosts", "ho st", "ost", "none", "bridge", "unconfine",
         "/tmp/seccomp.json", "openclaw-sandbox" }

ScalarValues == {Absent} \cup {Present(a \o w \o b) : a \in Pads, w \in ScalarWords, b \in Pads}

InitScalar ==
  /\ Parked
  /\ arg \in [which : {"network", "seccomp", "apparmor"}, value : ScalarValues]
  /\ res = <<>>

ApplyScalar(which, answer) ==
  /\ pc = "idle"
  /\ arg.which = which
  /\ Len(res) = 0
  /\ res' = << answer >>
  /\ UNCHANGED <<machine, arg>>

ApplyNetwork == ApplyScalar("network", validateNetworkMode(arg.value))

ApplySeccomp == ApplyScalar("seccomp", validateSeccompProfile(arg.value))

ApplyApparmor == ApplyScalar("apparmor", validateApparmorProfile(arg.value))

NextScalar == ApplyNetwork \/ ApplySeccomp \/ ApplyApparmor

SpecScalar == InitScalar /\ [][NextScalar]_vars
-----------------------------------------------------------------------------
(* Properties.  SpecBind runs validateBindMounts on the one bind           *)
(* cfg.binds[1]; its string-only check, once made, is log[1].              *)

TheBind == cfg.binds[1]

TheSource == parseBindSourcePath(TheBind)

\* validateBindMounts threw the error of reason for its one bind, after the
\* string-only check alone.
RejectedByStringCheck(reason) ==
  /\ pc = "done"
  /\ Len(log) = 1
  /\ log[1].check = "string"
  /\ log[1].reason = reason
  /\ outcome = Threw("sandbox_security", formatBindBlockedError(Trim(TheBind), reason))

\* Whether ".." segments of segs lead above the directory they start in,
\* depth segments below it.
RECURSIVE ClimbsAbove(_, _)
ClimbsAbove(segs, depth) ==
  IF Len(segs) = 0 THEN FALSE
  ELSE IF Head(segs) \in {"", "."} THEN ClimbsAbove(Tail(segs), depth)
  ELSE IF Head(segs) = ".."
    THEN depth = 0 \/ ClimbsAbove(Tail(segs), depth - 1)
  ELSE ClimbsAbove(Tail(segs), depth + 1)

\* A blocked path followed by any suffix, with any target.
TargetCases ==
  {[bind |-> p \o t \o g, blocked |-> p, suffix |-> t] :
     p \in Range(BLOCKED_HOST_PATHS), t \in Suffixes, g \in BindTargets}

\* Those whose suffix, white space at its end aside, stays inside the blocked path.
InsideCases == {c \in TargetCases : ~ClimbsAbove(SplitSlash(TrimEnd(c.suffix)), 0)}

\* C1 as stated: for every blocked path P and any suffix s, a bind whose
\* source is P or P/s fails the string-only check, and validateBindMounts,
\* with reason targets.
C1_AnySuffixTargets ==
  \A c \in TargetCases :
    (TheBind = c.bind /\ pc # "bind") =>
      \E p \in Range(BLOCKED_HOST_PATHS) : RejectedByStringCheck(Reason("targets", p))

\* C1 amended: for every blocked path P and every suffix s whose ".."
\* segments never lead above P, a bind whose source is P or P/s fails the
\* string-only check, and validateBindMounts, with reason targets on P.
C1_InsideSuffixTargets ==
  \A c \in InsideCases :
    (TheBind = c.bind /\ pc # "bind") =>
      RejectedByStringCheck(Reason("targets", c.blocked))

C1_Witness ==
  /\ TheBind = "/run/docker.sock/a/:/mnt:ro"
  /\ RejectedByStringCheck(Reason("targets", "/run/docker.sock"))

CoverCases ==
  {[bind |-> a \o g, ancestor |-> a] : a \in BlockedAncestors, g \in BindTargets}

\* C2: for every blocked path P, a bind whose source is a strict ancestor of
\* P, the root included, fails with reason covers, on a blocked path below
\* that ancestor.
C2_AncestorsCover ==
  \A c \in CoverCases :
    (TheBind = c.bind /\ pc # "bind") =>
      \E p \in Range(BLOCKED_HOST_PATHS) :
        /\ c.ancestor \in StrictAncestors(p)
        /\ RejectedByStringCheck(Reason("covers", p))

C2_Witness ==
  /\ TheBind \in {"/:/mnt:ro", "/private/var/run"}
  /\ pc = "done"
  /\ log[1].reason.kind = "covers"

\* C4 as stated: a bind whose source does not begin with "/" makes
\* validateBindMounts fail with reason non_absolute.
C4_NonAbsoluteFails ==
  (pc # "bind" /\ ~StartsWith(TheSource, "/")) =>
    RejectedByStringCheck(Reason("non_absolute", TheSource))

\* C4 amended: a bind whose source is not empty and does not begin with "/"
\* makes validateBindMounts fail with reason non_absolute, in every state of
\* the filesystem and without reading it; a blank bind, whose source is
\* empty, is skipped.
C4_NonEmptyNonAbsoluteFails ==
  /\ (pc # "bind" /\ TheSource # "" /\ ~StartsWith(TheSource, "/")) =>
       RejectedByStringCheck(Reason("non_absolute", TheSource))
  /\ (pc # "bind" /\ TheSource = "") =>
       (pc = "network" /\ log = <<>> /\ outcome.status # "threw")

C4_Witness ==
  /\ TheBind = "myvol/a:/mnt:ro"
  /\ fs.link = "/etc"
  /\ RejectedByStringCheck(Reason("non_absolute", "myvol/a"))

IsPrefix(a, b) == Len(a) <= Len(b) /\ SubSeq(b, 1, Len(a)) = a

\* The absolute path p is not the root and is neither equal to, below nor
\* above any blocked path, segment by segment.
Unrelated(p) ==
  LET segs == NonEmptySegments(p)
  IN  /\ Len(segs) > 0
      /\ \A b \in Range(BLOCKED_HOST_PATHS) :
           LET bsegs == NonEmptySegments(b)
           IN  ~IsPrefix(bsegs, segs) /\ ~IsPrefix(segs, bsegs)

\* C5: a bind whose source is absolute and whose normalized source is
\* unrelated to every blocked path passes the string-only check, and
\* validateBindMounts passes it when the path does not exist.
C5_NoFalsePositive ==
  (pc # "bind" /\ StartsWith(TheSource, "/") /\ Unrelated(normalizeHostPath(TheSource))) =>
    /\ log[1].check = "string" /\ log[1].pass /\ log[1].reason = NoReason
    /\ (Len(log) >= 2 /\ ~log[2].found) =>
         (pc = "network" /\ outcome.status # "threw" /\ Len(log) = 2)

C5_Witness ==
  /\ TheBind = "/etcetera/a:/mnt:ro"
  /\ pc = "network"
  /\ Len(log) = 2

-----------------------------------------------------------------------------
(* Properties of normalizeHostPath on its own (SpecNormalize).             *)

\* C9: normalizeHostPath(normalizeHostPath(x)) = normalizeHostPath(x).
C9_NormalizeIdempotent == Len(res) = 2 => res[2] = res[1]

-----------------------------------------------------------------------------
(* Properties of the scalar validators on their own (SpecScalar).          *)

IsSpaces(t) == \A k \in 1..Len(t) : CharAt(t, k) \in WhiteSpace

\* v spells the lower-case word w, letter by letter, in either case.
SpellsIgnoringCase(v, w) ==
  /\ Len(v) = Len(w)
  /\ \A k \in 1..Len(w) : CharAt(v, k) \in {CharAt(w, k), UpperChar(CharAt(w, k))}

\* v is w in some casing, with white space around it.
SpellsPadded(v, w) ==
  \E a \in 0..Len(v) : \E b \in a..Len(v) :
    /\ IsSpaces(SubSeq(v, 1, a))
    /\ IsSpaces(SubSeq(v, b + 1, Len(v)))
    /\ SpellsIgnoringCase(SubSeq(v, a + 1, b), w)

BlockedFor(which) ==
  IF which = "network" THEN {"host"} ELSE {"unconfined"}

LabelFor(which) ==
  IF which = "network" THEN "network mode"
  ELSE IF which = "seccomp" THEN "seccomp profile"
  ELSE "apparmor profile"

\* C7: each scalar validator fails exactly on a value that, trimmed and
\* lower-cased, is in its blocked set; the message then quotes the value as
\* passed; an absent value passes.
C7_ScalarValidators ==
  Len(res) = 1 =>
    LET v == arg.value
        r == res[1]
    IN  /\ r.threw <=> (v # Absent /\ \E w \in BlockedFor(arg.which) : SpellsPadded(v[1], w))
        /\ r.threw =>
             StartsWith(r.message, "Sandbox security: " \o LabelFor(arg.which)
                                   \o " \"" \o v[1] \o "\" is blocked. ")

C7_Witness ==
  /\ arg = [which |-> "seccomp", value |-> Present(" UNConfined")]
  /\ Len(res) = 1
  /\ res[1].threw
-----------------------------------------------------------------------------
(* Properties of validateSandboxSecurity (Spec, SpecTwice).                *)

Entries == 1..Len(cfg.binds)

Positions == 1..Len(log)

SourceOf(k) == parseBindSourcePath(cfg.binds[k])

\* The symlink of the filesystem that another process controls.
L == "/home/u/l"

IsBlocked(p) == p \in Range(BLOCKED_HOST_PATHS)

\* The validator is past bind entry k.
PastEntry(k) == pc \in {"network", "seccomp", "apparmor", "done"} \/ idx > k

\* C3 as stated: whenever L is a symlink to a blocked path P, a bind whose
\* source is L/child, for any child, fails with reason targets.
C3_SymlinkAlwaysTargets ==
  \A k \in Entries : \A n \in Positions :
    ( /\ StartsWith(SourceOf(k), L \o "/")
      /\ log[n].check = "exists" /\ log[n].entry = k /\ IsBlocked(log[n].link)
      /\ PastEntry(k)
      /\ \A m \in Positions : log[m].entry = k /\ log[m].check = "realpath"
                                => log[m].link = log[n].link )
    => /\ outcome.status = "threw"
       /\ \E m \in Positions : log[m].entry = k /\ log[m].reason.kind = "targets"

\* C3 amended: when L is a symlink to a blocked path P, a bind whose source
\* is L/child passes the string-only check, and fails with reason targets on
\* P whenever L/child exists when checked and resolves to P/child.
C3_SymlinkToExistingChildTargets ==
  \A k \in Entries : \A n \in Positions :
    ( /\ StartsWith(SourceOf(k), L \o "/")
      /\ log[n].check = "realpath" /\ log[n].entry = k
      /\ IsBlocked(log[n].link)
      /\ log[n].found
      /\ log[n].real = log[n].link \o SubSeq(SourceOf(k), Len(L) + 1, Len(SourceOf(k))) )
    => /\ n >= 3
       /\ log[n - 2].check = "string" /\ log[n - 2].entry = k /\ log[n - 2].pass
       /\ log[n].reason = Reason("targets", log[n].link)
       /\ pc = "done"
       /\ outcome = Threw("sandbox_security",
                          formatBindBlockedError(Trim(cfg.binds[k]), log[n].reason))

C3_Witness ==
  /\ pc = "done"
  /\ cfg.binds = <<"/home/u/l/a:/mnt/a:ro">>
  /\ Len(log) = 3
  /\ log[3].reason = Reason("targets", "/etc")

\* Place of a check in the order validateSandboxSecurity makes them in.
Rank(e) ==
  IF e.check = "string" THEN 3 * e.entry - 2
  ELSE IF e.check = "exists" THEN 3 * e.entry - 1
  ELSE IF e.check = "realpath" THEN 3 * e.entry
  ELSE IF e.check = "network" THEN 3 * Len(cfg.binds) + 1
  ELSE IF e.check = "seccomp" THEN 3 * Len(cfg.binds) + 2
  ELSE 3 * Len(cfg.binds) + 3

\* The message of the error the failed check e raises.
MessageOf(e) ==
  IF e.check \in {"string", "realpath"}
    THEN formatBindBlockedError(Trim(cfg.binds[e.entry]), e.reason)
  ELSE IF e.check = "network" THEN validateNetworkMode(cfg.network).message
  ELSE IF e.check = "seccomp" THEN validateSeccompProfile(cfg.seccompProfile).message
  ELSE validateApparmorProfile(cfg.apparmorProfile).message

NonBlank(k) == ~IsSpaces(cfg.binds[k])

Checked(check, k) == \E m \in Positions : log[m].check = check /\ log[m].entry = k

\* C6: the checks are made in the order bind entries (string-only check,
\* then real path), network, seccomp, AppArmor; none is left out before the
\* one that fails; the error is that of the first failing check, and
\* nothing is examined after it.
C6_CheckOrder ==
  /\ \A n \in Positions :
       /\ n > 1 => Rank(log[n - 1]) < Rank(log[n])
       /\ n < Len(log) => log[n].pass
       /\ log[n].check = "exists" =>
            n > 1 /\ log[n - 1].check = "string" /\ log[n - 1].entry = log[n].entry
       /\ log[n].check = "realpath" =>
            n > 1 /\ log[n - 1].check = "exists" /\ log[n - 1].entry = log[n].entry
                  /\ log[n - 1].found
       /\ \A k \in Entries :
            (NonBlank(k) /\ 3 * k - 2 < Rank(log[n])) => Checked("string", k)
       /\ log[n].check = "seccomp" => Checked("network", 0)
       /\ log[n].check = "apparmor" => Checked("network", 0) /\ Checked("seccomp", 0)
  /\ outcome.status = "threw" <=> (Len(log) > 0 /\ ~log[Len(log)].pass)
  /\ outcome.status = "threw" =>
       /\ pc = "done"
       /\ outcome = Threw("sandbox_security", MessageOf(log[Len(log)]))
  /\ outcome.status = "returned" =>
       /\ pc = "done"
       /\ Checked("apparmor", 0)
       /\ \A k \in Entries : NonBlank(k) => Checked("string", k)

\* Several violations are present, and the error is that of the second bind.
C6_Witness ==
  /\ pc = "done"
  /\ cfg.binds = <<"/home/u/l/a:/mnt/a:ro", "/var:/var">>
  /\ validateNetworkMode(cfg.network).threw
  /\ validateSeccompProfile(cfg.seccompProfile).threw
  /\ Len(log) = 4
  /\ log[3].check = "realpath"
  /\ outcome = Threw("sandbox_security",
                     formatBindBlockedError("/var:/var", Reason("covers", "/var/run/docker.sock")))

\* C10: a failed real-path resolution raises no filesystem error and leaves
\* the entry as the string-only check decided it, passed; a bind the
\* string-only check rejects is rejected whatever the filesystem holds.
C10_FailOpenOnlyOnResolution ==
  /\ outcome.kind # "fs_error"
  /\ \A n \in Positions :
       (log[n].check = "realpath" /\ ~log[n].found) =>
         /\ log[n].pass
         /\ log[n].real = normalizeHostPath(SourceOf(log[n].entry))
         /\ n = Len(log) => (outcome.status # "threw" /\ PastEntry(log[n].entry))
  /\ \A k \in Entries :
       ( /\ NonBlank(k)
         /\ getBlockedBindReasonStringOnly(Trim(cfg.binds[k])).kind # "none"
         /\ PastEntry(k) \/ Checked("string", k) )
       => /\ pc = "done"
          /\ outcome.status = "threw"
          /\ ~Checked("exists", k)

\* The path existed when checked and was gone when resolved.
C10_Witness ==
  \E n \in Positions :
    /\ n > 1
    /\ log[n].check = "realpath" /\ ~log[n].found /\ log[n].link = ""
    /\ log[n - 1].check = "exists" /\ log[n - 1].found /\ log[n - 1].link = "/etc"
    /\ ~fs.realpathFails
    /\ pc # "done"

====
